---- MODULE Spec2Model ----
(***************************************************************************)
(* Model of the JSON-RPC request pipeline of                               *)
(* src/a2a/server/apps/jsonrpc/jsonrpc_app.py:                             *)
(*   JSONRPCApplication._handle_requests and the helpers it calls          *)
(*   (_process_streaming_request, _process_non_streaming_request,          *)
(*   _create_response with its event_generator, _generate_error_response)  *)
(*   and DefaultCallContextBuilder.build.                                  *)
(*                                                                         *)
(* Each element of Reqs is one invocation of _handle_requests.  An action  *)
(* is the code one invocation runs between two suspension points (the      *)
(* awaits on request.json(), on the unary handler and on the items of the  *)
(* stream), so invocations interleave exactly where coroutines can.        *)
(***************************************************************************)
EXTENDS Integers, Sequences, FiniteSets, TLC

\* ------------------------------------------------------------------ bounds
\* Request ids on the wire are 1..MaxId (or absent).
MaxId == 2
\* A stream produces at most MaxItems items.
MaxItems == 3

\* The concurrently executing invocations of _handle_requests.
Reqs == {"r1", "r2"}

\* ------------------------------------------------------------- wire values
\* Python None (request_id = None); an id i is the one-element tuple <<i>>.
None == << >>
IdValues == {None} \cup {<<i>> : i \in 1..MaxId}

HTTP_413_REQUEST_ENTITY_TOO_LARGE == 413

\* The nine request classes of the A2ARequest union.
StreamingTypes == {"SendStreamingMessageRequest", "TaskResubscriptionRequest"}
UnaryTypes == {"SendMessageRequest", "CancelTaskRequest", "GetTaskRequest",
               "SetTaskPushNotificationConfigRequest",
               "GetTaskPushNotificationConfigRequest",
               "ListTaskPushNotificationConfigRequest",
               "DeleteTaskPushNotificationConfigRequest"}
RequestTypes == StreamingTypes \cup UnaryTypes

\* The method discriminator of each request class.
MethodOf(type) ==
    CASE type = "SendMessageRequest" -> "message/send"
      [] type = "SendStreamingMessageRequest" -> "message/stream"
      [] type = "GetTaskRequest" -> "tasks/get"
      [] type = "CancelTaskRequest" -> "tasks/cancel"
      [] type = "SetTaskPushNotificationConfigRequest" -> "tasks/pushNotificationConfig/set"
      [] type = "GetTaskPushNotificationConfigRequest" -> "tasks/pushNotificationConfig/get"
      [] type = "ListTaskPushNotificationConfigRequest" -> "tasks/pushNotificationConfig/list"
      [] type = "DeleteTaskPushNotificationConfigRequest" -> "tasks/pushNotificationConfig/delete"
      [] type = "TaskResubscriptionRequest" -> "tasks/resubscribe"

KnownMethods == {MethodOf(t) : t \in RequestTypes}
UnknownMethod == "unknown/method"

\* ------------------------------------------------------------- exceptions
Exc(type, status, msg) == [type |-> type, status |-> status, msg |-> msg]
NoExc == Exc("none", 0, "")

\* ---------------------------------------------------------- inbound bodies
\* What the transport delivers for one POST: either reading the body fails
\* (kind # "json") or the body is a JSON value.
Body(kind, shape, id, method, params) ==
    [kind |-> kind, shape |-> shape, id |-> id, method |-> method, params |-> params]
NoBody == Body("none", "none", None, "none", "none")

JsonObjects ==
    {Body("json", "object", i, m, p) :
        i \in IdValues, m \in KnownMethods \cup {UnknownMethod}, p \in {"valid", "invalid"}}

Requests ==
    JsonObjects
    \cup {Body("json", "array", None, "none", "invalid"),
          Body("malformed", "none", None, "none", "none"),
          Body("too_large", "none", None, "none", "none"),
          Body("http_error", "none", None, "none", "none"),
          Body("io_error", "none", None, "none", "none")}

\* await request.json(): the parsed body, or the exception it raises.
ReadJson(rq) ==
    CASE rq.kind = "json" -> [exc |-> NoExc, body |-> rq]
      [] rq.kind = "malformed" ->
            [exc |-> Exc("JSONDecodeError", 0, "Expecting value"), body |-> NoBody]
      [] rq.kind = "too_large" ->
            [exc |-> Exc("HTTPException", HTTP_413_REQUEST_ENTITY_TOO_LARGE, "Request Entity Too Large"),
             body |-> NoBody]
      [] rq.kind = "http_error" ->
            [exc |-> Exc("HTTPException", 400, "Bad Request"), body |-> NoBody]
      [] rq.kind = "io_error" ->
            [exc |-> Exc("Exception", 0, "client disconnected"), body |-> NoBody]

\* A2ARequest.model_validate(body): the request object (its class and id),
\* or a ValidationError when the body matches none of the nine classes.
NoRequest == [type |-> "none", id |-> None]

TypeOfMethod(m) == CHOOSE t \in RequestTypes : MethodOf(t) = m

ModelValidate(body) ==
    IF body.shape = "object" /\ body.method \in KnownMethods /\ body.params = "valid"
    THEN [exc |-> NoExc, root |-> [type |-> TypeOfMethod(body.method), id |-> body.id]]
    ELSE [exc |-> Exc("ValidationError", 0, "validation error"), root |-> NoRequest]

\* ------------------------------------------------------------ RPC payloads
Error(name, code, message, data) ==
    [name |-> name, code |-> code, message |-> message, data |-> data]
NoError == Error("none", 0, "", "none")

JSONParseError(message) == Error("JSONParseError", -32700, message, "none")
InvalidRequestError(message, data) == Error("InvalidRequestError", -32600, message, data)
UnsupportedOperationError(message) == Error("UnsupportedOperationError", -32004, message, "none")
InternalError(message) == Error("InternalError", -32603, message, "none")
TaskNotFoundError == Error("TaskNotFoundError", -32001, "Task not found", "none")

DefaultInvalidRequestMessage == "Request payload validation error"
DefaultUnsupportedMessage == "This operation is not supported"

\* A2AError(root=...) wraps one of the error classes; a bare JSONRPCError
\* is not wrapped.
A2AError(root) == [wrapped |-> TRUE, root |-> root]

\* JSONRPCErrorResponse(id, error) and a success response, before dumping.
JSONRPCErrorResponse(id, error) ==
    [id |-> id, tag |-> "error", result |-> "", error |-> error]
JSONRPCSuccessResponse(id, result) ==
    [id |-> id, tag |-> "result", result |-> result, error |-> NoError]

\* model_dump(mode='json', exclude_none=True): the keys with value None are
\* left out of the dumped object, so a None id is not a key of the body.
ModelDump(model) ==
    [keys |-> IF model.id = None THEN {"jsonrpc", model.tag}
              ELSE {"jsonrpc", "id", model.tag},
     id |-> model.id, tag |-> model.tag,
     result |-> model.result, error |-> model.error]
NoContent == [keys |-> {}, id |-> None, tag |-> "none", result |-> "", error |-> NoError]

\* The id a JSON-RPC client reads off a body: null when the key is absent.
BodyId(content) == IF "id" \in content.keys THEN content.id ELSE None

\* ------------------------------------------------------ transport responses
Response(kind, status, content) ==
    [kind |-> kind, status |-> status, content |-> content]
NoResponse == Response("none", 0, NoContent)

\* starlette's JSONResponse(content, status_code=200)
JSONResponse(content, status_code) == Response("json", status_code, content)
\* EventSourceResponse(event_generator(stream))
EventSourceResponse == Response("sse", 200, NoContent)

\* ------------------------------------------------------------ call context
\* The attributes of the Starlette request that build() touches: reading
\* request.user and request.auth raises when no authentication middleware is
\* installed; each attribute may raise or yield a value.
TransportRequests ==
    [user : {"raises", "anonymous", "alice"},
     auth : {"raises", "ok"},
     headers : {"raises", "ok"}]

UnauthenticatedUser == [cls |-> "UnauthenticatedUser", name |-> "", is_authenticated |-> FALSE]
StarletteUserProxy(user) ==
    [cls |-> "StarletteUserProxy", name |-> user, is_authenticated |-> (user # "anonymous")]

ServerCallContext(user, state) == [user |-> user, state |-> state]
NoContext == ServerCallContext([cls |-> "none", name |-> "", is_authenticated |-> FALSE], {})

\* DefaultCallContextBuilder.build: the user and the auth entry are set
\* inside contextlib.suppress(Exception), in that order; the headers are
\* read after the suppressed block.
DefaultCallContextBuilder_build(t) ==
    LET user == IF t.user = "raises" THEN UnauthenticatedUser
                ELSE StarletteUserProxy(t.user)
        auth == IF t.user # "raises" /\ t.auth = "ok" THEN {"auth"} ELSE {}
    IN IF t.headers = "raises"
       THEN [exc |-> Exc("Exception", 0, "headers unavailable"), context |-> NoContext]
       ELSE [exc |-> NoExc, context |-> ServerCallContext(user, auth \cup {"headers"})]

\* A CallContextBuilder supplied by the application (the abstract build()):
\* it returns a context or raises.
CustomCallContextBuilder_build ==
    {[exc |-> Exc("Exception", 0, "context builder failed"), context |-> NoContext],
     [exc |-> NoExc,
      context |-> ServerCallContext(StarletteUserProxy("alice"), {"headers"})]}

NoTransportRequest == [user |-> "none", auth |-> "none", headers |-> "none"]

\* self._context_builder.build(request): the request attributes read (none
\* by a custom builder) together with the outcome of the call.
BuildCalls(builder) ==
    IF builder = "default"
    THEN {[request |-> t, outcome |-> DefaultCallContextBuilder_build(t)] :
             t \in TransportRequests}
    ELSE {[request |-> NoTransportRequest, outcome |-> b] :
             b \in CustomCallContextBuilder_build}

\* self._context_builder.build(request): every outcome of the configured builder.
BuildOutcomes(builder) ==
    IF builder = "default"
    THEN {DefaultCallContextBuilder_build(t) : t \in TransportRequests}
    ELSE CustomCallContextBuilder_build

\* ---------------------------------------------------------------- logging
LogRecord(level, what, id, code) ==
    [level |-> level, what |-> what, id |-> id, code |-> code]

\* -------------------------------------------------- _generate_error_response
\* log_level always ERROR.
LogLevel_AlwaysError(error) == "ERROR"

\* log_level: ERROR when the error is not an A2AError or its root is an
\* InternalError, WARNING otherwise.
LogLevel(error) ==
    IF ~error.wrapped \/ error.root.name = "InternalError" THEN "ERROR" ELSE "WARNING"

ErrorStatusCode == 200

\* _generate_error_response answering with a transport error status.
_generate_error_response_Status500(request_id, error) ==
    LET error_resp == JSONRPCErrorResponse(request_id, error.root)
    IN [response |-> JSONResponse(ModelDump(error_resp), 500),
        log |-> <<LogRecord(LogLevel(error), "Request Error", request_id, error_resp.error.code)>>]

_generate_error_response(request_id, error) ==
    LET error_resp == JSONRPCErrorResponse(request_id, error.root)
    IN [response |-> JSONResponse(ModelDump(error_resp), ErrorStatusCode),
        log |-> <<LogRecord(LogLevel(error), "Request Error", request_id, error_resp.error.code)>>]

\* --------------------------------------------- _handle_requests: except clauses
\* The outcome of one invocation: the response it returns or the exception
\* it raises, and what it logged on the way.
Outcome(response, raised, log) == [response |-> response, raised |-> raised, log |-> log]

Returned(gen, log) == Outcome(gen.response, NoExc, log \o gen.log)

\* The exception classes _handle_requests has an except clause for.
ExceptClassNames ==
    {"MethodNotImplementedError", "JSONDecodeError", "ValidationError",
     "HTTPException", "Exception"}

\* The try statement of _handle_requests with except clauses for the classes
\* in clauses, in source order, applied to the exception e raised inside the
\* try block while request_id has the given value.  Every exception modelled
\* is a subclass of Exception; one no clause matches propagates.
TryExcept(clauses, request_id, e) ==
    CASE e.type = "MethodNotImplementedError" /\ e.type \in clauses ->
            Returned(_generate_error_response(
                request_id, A2AError(UnsupportedOperationError(DefaultUnsupportedMessage))), << >>)
      [] e.type = "JSONDecodeError" /\ e.type \in clauses ->
            Returned(_generate_error_response(None, A2AError(JSONParseError(e.msg))), << >>)
      [] e.type = "ValidationError" /\ e.type \in clauses ->
            Returned(_generate_error_response(
                request_id,
                A2AError(InvalidRequestError(DefaultInvalidRequestMessage, "validation detail"))), << >>)
      [] e.type = "HTTPException" /\ e.type \in clauses ->
            IF e.status = HTTP_413_REQUEST_ENTITY_TOO_LARGE
            THEN Returned(_generate_error_response(
                     request_id,
                     A2AError(InvalidRequestError("Payload too large", "none"))), << >>)
            ELSE Outcome(NoResponse, e, << >>)
      [] OTHER ->
            IF "Exception" \in clauses
            THEN Returned(_generate_error_response(request_id, A2AError(InternalError(e.msg))),
                          <<LogRecord("ERROR", "Unhandled exception", None, 0)>>)
            ELSE Outcome(NoResponse, e, << >>)

\* The try statement without its final `except Exception` clause.
ExceptClauses_NoCatchAll(request_id, e) ==
    TryExcept(ExceptClassNames \ {"Exception"}, request_id, e)

\* The try statement without its `except MethodNotImplementedError` clause.
ExceptClauses_NoNotImplemented(request_id, e) ==
    TryExcept(ExceptClassNames \ {"MethodNotImplementedError"}, request_id, e)

\* The try statement without its `except HTTPException` clause.
ExceptClauses_NoHTTPException(request_id, e) ==
    TryExcept(ExceptClassNames \ {"HTTPException"}, request_id, e)

\* The try statement without its `except json.decoder.JSONDecodeError` clause.
ExceptClauses_NoJSONDecodeError(request_id, e) ==
    TryExcept(ExceptClassNames \ {"JSONDecodeError"}, request_id, e)

\* The final clause answering with the default InternalError message
\* instead of str(e).
ExceptClauses_GenericMessage(request_id, e) ==
    TryExcept(ExceptClassNames, request_id,
              IF e.type \in ExceptClassNames \ {"Exception"}
              THEN e ELSE Exc(e.type, e.status, "Internal error"))

\* The HTTPException clause without its status test: every HTTPException is
\* answered as 'Payload too large'.
ExceptClauses_EveryHTTPExceptionAs413(request_id, e) ==
    TryExcept(ExceptClassNames, request_id,
              IF e.type = "HTTPException"
              THEN Exc(e.type, HTTP_413_REQUEST_ENTITY_TOO_LARGE, e.msg) ELSE e)

\* The except clauses of _handle_requests.
ExceptClauses(request_id, e) ==
    TryExcept(ExceptClassNames, request_id, e)

\* ------------------------------------------------------------ the handlers
\* JSONRPCHandler operation selected for each request class.
\* _process_non_streaming_request: the match statement; "none" is `case _`.
UnaryHandlerOf(type) ==
    CASE type = "SendMessageRequest" -> "on_message_send"
      [] type = "CancelTaskRequest" -> "on_cancel_task"
      [] type = "GetTaskRequest" -> "on_get_task"
      [] type = "SetTaskPushNotificationConfigRequest" -> "set_push_notification_config"
      [] type = "GetTaskPushNotificationConfigRequest" -> "get_push_notification_config"
      [] type = "ListTaskPushNotificationConfigRequest" -> "list_push_notification_config"
      [] type = "DeleteTaskPushNotificationConfigRequest" -> "delete_push_notification_config"
      [] OTHER -> "none"

\* _process_streaming_request: the if/elif; "none" leaves handler_result None.
StreamingHandlerOf(type) ==
    CASE type = "SendStreamingMessageRequest" -> "on_message_send_stream"
      [] type = "TaskResubscriptionRequest" -> "on_resubscribe_to_task"
      [] OTHER -> "none"

\* The isinstance test naming only SendStreamingMessageRequest.
IsStreamingRequest_OnlySendStreaming(type) ==
    type \in {"SendStreamingMessageRequest"}

\* _handle_requests: isinstance(request_obj, TaskResubscriptionRequest | SendStreamingMessageRequest)
IsStreamingRequest(type) ==
    type \in {"TaskResubscriptionRequest", "SendStreamingMessageRequest"}

\* What a handler operation hands back: a value of some class, or an exception.
HandlerResult(cls, model) == [cls |-> cls, model |-> model]
NoModel == [id |-> None, tag |-> "none", result |-> "", error |-> NoError]
NoResult == HandlerResult("NoneType", NoModel)

HandlerExceptions ==
    {Exc("MethodNotImplementedError", 0, "not implemented"),
     Exc("Exception", 0, "handler failed"),
     Exc("HTTPException", HTTP_413_REQUEST_ENTITY_TOO_LARGE, "Request Entity Too Large"),
     Exc("HTTPException", 400, "Bad Request")}

\* The outcomes of an awaited unary operation op for the request with id id:
\* a success response or an explicit error response for that id, or a raise.
UnaryHandlerOutcomes(op, id) ==
    {[exc |-> NoExc, result |-> HandlerResult("RootModel", JSONRPCSuccessResponse(id, op))],
     [exc |-> NoExc,
      result |-> HandlerResult("JSONRPCErrorResponse", JSONRPCErrorResponse(id, TaskNotFoundError))]}
    \cup {[exc |-> e, result |-> NoResult] : e \in HandlerExceptions}

\* Calling a streaming operation (not awaited): it hands back the
\* asynchronous generator, or raises before any generator exists.
StreamingCallOutcomes ==
    {[exc |-> NoExc, result |-> HandlerResult("AsyncGenerator", NoModel)],
     [exc |-> Exc("MethodNotImplementedError", 0, "not implemented"), result |-> NoResult],
     [exc |-> Exc("Exception", 0, "handler failed"), result |-> NoResult]}

\* Exceptions the generator can raise while producing an item.
StreamExceptions ==
    {Exc("MethodNotImplementedError", 0, "not implemented"),
     Exc("Exception", 0, "handler failed")}

\* ------------------------------------------------------------ _create_response
\* _create_response without its AsyncGenerator branch: a generator is taken
\* for a response model, and has no .root.
_create_response_NoStreamBranch(handler_result) ==
    IF handler_result.cls = "JSONRPCErrorResponse"
    THEN [exc |-> NoExc, response |-> JSONResponse(ModelDump(handler_result.model), 200)]
    ELSE IF handler_result.cls = "RootModel"
    THEN [exc |-> NoExc, response |-> JSONResponse(ModelDump(handler_result.model), 200)]
    ELSE [exc |-> Exc("Exception", 0, "object has no attribute root"), response |-> NoResponse]

\* _create_response answering an explicit error of the handler with an
\* InternalError of its own.
_create_response_RewritesError(handler_result) ==
    IF handler_result.cls = "AsyncGenerator"
    THEN [exc |-> NoExc, response |-> EventSourceResponse]
    ELSE IF handler_result.cls = "JSONRPCErrorResponse"
    THEN [exc |-> NoExc,
          response |-> JSONResponse(ModelDump(
              JSONRPCErrorResponse(handler_result.model.id, InternalError("Internal error"))), 200)]
    ELSE IF handler_result.cls = "RootModel"
    THEN [exc |-> NoExc, response |-> JSONResponse(ModelDump(handler_result.model), 200)]
    ELSE [exc |-> Exc("Exception", 0, "object has no attribute root"), response |-> NoResponse]

\* Chooses the transport response from the class of handler_result.  A value
\* of any other class has no .root: the AttributeError is raised inside the
\* try block of _handle_requests.
_create_response(handler_result) ==
    IF handler_result.cls = "AsyncGenerator"
    THEN [exc |-> NoExc, response |-> EventSourceResponse]
    ELSE IF handler_result.cls = "JSONRPCErrorResponse"
    THEN [exc |-> NoExc, response |-> JSONResponse(ModelDump(handler_result.model), 200)]
    ELSE IF handler_result.cls = "RootModel"
    THEN [exc |-> NoExc, response |-> JSONResponse(ModelDump(handler_result.model), 200)]
    ELSE [exc |-> Exc("Exception", 0, "object has no attribute root"), response |-> NoResponse]

\* event_generator: {'data': item.root.model_dump_json(exclude_none=True)}
Item(request_id, n) == [id |-> request_id, seq |-> n]
Frame(item) == [data |-> <<"json", item.id, item.seq>>]

\* ------------------------------------------------------------------- state
VARIABLES
    context_builder,  \* self._context_builder: "default" or "custom"
    pc,               \* where each invocation of _handle_requests stands
    req,              \* the inbound request of each invocation
    request_id,       \* the local request_id
    request_obj,      \* the local request_obj (a2a_request.root)
    call_context,     \* the local call_context
    transport_request,\* the attributes of the Starlette request build() read
    builds,           \* how often the context builder was called
    invoked,          \* the handler operations called, in order
    handler_outcome,  \* what the called handler operation handed back
    response,         \* the response returned to the transport
    raised,           \* the exception that left _handle_requests
    log,              \* the records logged by the invocation
    egen,             \* state of event_generator(stream)
    stream,           \* state of the handler's asynchronous generator
    stream_exc,       \* the exception the stream raised, if any
    produced,         \* the items the stream has produced, in order
    frames,           \* the frames handed to the transport, in order
    conn              \* the caller's connection of a streaming response

vars == <<context_builder, pc, req, request_id, request_obj, call_context,
          transport_request, builds,
          invoked, handler_outcome, response, raised, log,
          egen, stream, stream_exc, produced, frames, conn>>

streamVars == <<egen, stream, stream_exc, produced, frames, conn>>

NoOutcome == [exc |-> NoExc, result |-> NoResult]

Init ==
    /\ context_builder \in {"default", "custom"}
    /\ pc = [r \in Reqs |-> "idle"]
    /\ req = [r \in Reqs |-> NoBody]
    /\ request_id = [r \in Reqs |-> None]
    /\ request_obj = [r \in Reqs |-> NoRequest]
    /\ call_context = [r \in Reqs |-> NoContext]
    /\ transport_request = [r \in Reqs |-> NoTransportRequest]
    /\ builds = [r \in Reqs |-> 0]
    /\ invoked = [r \in Reqs |-> << >>]
    /\ handler_outcome = [r \in Reqs |-> NoOutcome]
    /\ response = [r \in Reqs |-> NoResponse]
    /\ raised = [r \in Reqs |-> NoExc]
    /\ log = [r \in Reqs |-> << >>]
    /\ egen = [r \in Reqs |-> "none"]
    /\ stream = [r \in Reqs |-> "none"]
    /\ stream_exc = [r \in Reqs |-> NoExc]
    /\ produced = [r \in Reqs |-> << >>]
    /\ frames = [r \in Reqs |-> << >>]
    /\ conn = [r \in Reqs |-> "none"]

\* _handle_requests ends with outcome out: it returns out.response or raises
\* out.raised; its locals go out of scope.
Complete(r, out) ==
    /\ response' = [response EXCEPT ![r] = out.response]
    /\ raised' = [raised EXCEPT ![r] = out.raised]
    /\ log' = [log EXCEPT ![r] = log[r] \o out.log]
    /\ pc' = [pc EXCEPT ![r] = IF out.raised = NoExc THEN "returned" ELSE "raised"]
    /\ call_context' = [call_context EXCEPT ![r] = NoContext]
    /\ transport_request' = [transport_request EXCEPT ![r] = NoTransportRequest]

\* The handler outcome o goes through _create_response; an exception raised
\* by the handler or by _create_response goes through the except clauses.
RenderOrTranslate(rid, o) ==
    IF o.exc # NoExc
    THEN ExceptClauses(rid, o.exc)
    ELSE LET cr == _create_response(o.result)
         IN IF cr.exc # NoExc
            THEN ExceptClauses(rid, cr.exc)
            ELSE Outcome(cr.response, NoExc, << >>)

\* ----------------------------------------------------------------- actions
\* A POST arrives: _handle_requests starts (request_id = None, body = None)
\* and suspends on request.json().
Receive(r) ==
    /\ pc[r] = "idle"
    /\ \E rq \in Requests : req' = [req EXCEPT ![r] = rq]
    /\ request_id' = [request_id EXCEPT ![r] = None]
    /\ pc' = [pc EXCEPT ![r] = "read_body"]
    /\ UNCHANGED <<context_builder, request_obj, call_context, transport_request, builds, invoked,
                   handler_outcome, response, raised, log, streamVars>>

\* request.json() raises.
BodyReadFails(r) ==
    /\ pc[r] = "read_body"
    /\ ReadJson(req[r]).exc # NoExc
    /\ Complete(r, ExceptClauses(request_id[r], ReadJson(req[r]).exc))
    /\ UNCHANGED <<context_builder, req, request_id, request_obj, builds, invoked,
                   handler_outcome, streamVars>>

\* The context built before the body is validated.
ValidationFails_BuildFirst(r) ==
    /\ pc[r] = "read_body"
    /\ ReadJson(req[r]).exc = NoExc
    /\ LET v == ModelValidate(ReadJson(req[r]).body)
       IN /\ v.exc # NoExc
          /\ Complete(r, ExceptClauses(request_id[r], v.exc))
    /\ builds' = [builds EXCEPT ![r] = @ + 1]
    /\ UNCHANGED <<context_builder, req, request_id, request_obj, invoked,
                   handler_outcome, streamVars>>

\* The body is JSON; A2ARequest.model_validate(body) raises ValidationError.
ValidationFails(r) ==
    /\ pc[r] = "read_body"
    /\ ReadJson(req[r]).exc = NoExc
    /\ LET v == ModelValidate(ReadJson(req[r]).body)
       IN /\ v.exc # NoExc
          /\ Complete(r, ExceptClauses(request_id[r], v.exc))
    /\ UNCHANGED <<context_builder, req, request_id, request_obj, builds, invoked,
                   handler_outcome, streamVars>>

\* The body validates; self._context_builder.build(request) raises.
BuildContextFails(r) ==
    /\ pc[r] = "read_body"
    /\ ReadJson(req[r]).exc = NoExc
    /\ ModelValidate(ReadJson(req[r]).body).exc = NoExc
    /\ \E b \in BuildOutcomes(context_builder) :
          /\ b.exc # NoExc
          /\ Complete(r, ExceptClauses(request_id[r], b.exc))
    /\ builds' = [builds EXCEPT ![r] = @ + 1]
    /\ UNCHANGED <<context_builder, req, request_id, request_obj, invoked,
                   handler_outcome, streamVars>>

\* The body validates, the context is built, request_id is set, and the
\* request goes to _process_non_streaming_request, which calls the matched
\* operation and suspends on it; `case _` answers at once.
DispatchUnary(r) ==
    /\ pc[r] = "read_body"
    /\ ReadJson(req[r]).exc = NoExc
    /\ LET v == ModelValidate(ReadJson(req[r]).body)
           op == UnaryHandlerOf(v.root.type)
       IN /\ v.exc = NoExc
          /\ ~IsStreamingRequest(v.root.type)
          /\ request_id' = [request_id EXCEPT ![r] = v.root.id]
          /\ request_obj' = [request_obj EXCEPT ![r] = v.root]
          /\ builds' = [builds EXCEPT ![r] = @ + 1]
          /\ \E c \in BuildCalls(context_builder) :
                /\ c.outcome.exc = NoExc
                /\ IF op # "none"
                   THEN /\ call_context' = [call_context EXCEPT ![r] = c.outcome.context]
                        /\ transport_request' = [transport_request EXCEPT ![r] = c.request]
                        /\ invoked' = [invoked EXCEPT ![r] = Append(@, op)]
                        /\ pc' = [pc EXCEPT ![r] = "await_handler"]
                        /\ UNCHANGED <<response, raised, log>>
                   ELSE /\ Complete(r, Outcome(
                               _create_response(HandlerResult("JSONRPCErrorResponse",
                                   JSONRPCErrorResponse(v.root.id,
                                       UnsupportedOperationError("Request type is unknown.")))).response,
                               NoExc,
                               <<LogRecord("ERROR", "Unhandled validated request type", None, 0)>>))
                        /\ UNCHANGED invoked
    /\ UNCHANGED <<context_builder, req, handler_outcome, streamVars>>

\* The awaited unary operation completes: its value is rendered by
\* _create_response, its exception goes through the except clauses.
HandlerCompletes(r) ==
    /\ pc[r] = "await_handler"
    /\ \E o \in UnaryHandlerOutcomes(invoked[r][Len(invoked[r])], request_id[r]) :
          /\ handler_outcome' = [handler_outcome EXCEPT ![r] = o]
          /\ Complete(r, RenderOrTranslate(request_id[r], o))
    /\ UNCHANGED <<context_builder, req, request_id, request_obj, builds, invoked,
                   streamVars>>

\* The body validates, the context is built, request_id is set, and the
\* request goes to _process_streaming_request: the operation is called
\* without being awaited and its generator is wrapped in an
\* EventSourceResponse, which _handle_requests returns.
DispatchStreaming(r) ==
    /\ pc[r] = "read_body"
    /\ ReadJson(req[r]).exc = NoExc
    /\ LET v == ModelValidate(ReadJson(req[r]).body)
           op == StreamingHandlerOf(v.root.type)
       IN /\ v.exc = NoExc
          /\ IsStreamingRequest(v.root.type)
          /\ request_id' = [request_id EXCEPT ![r] = v.root.id]
          /\ request_obj' = [request_obj EXCEPT ![r] = v.root]
          /\ builds' = [builds EXCEPT ![r] = @ + 1]
          /\ \E b \in BuildOutcomes(context_builder) : b.exc = NoExc
          /\ \E o \in (IF op = "none" THEN {NoOutcome} ELSE StreamingCallOutcomes) :
                LET out == RenderOrTranslate(v.root.id, o)
                    streaming == out.response.kind = "sse"
                IN /\ handler_outcome' = [handler_outcome EXCEPT ![r] = o]
                   /\ invoked' = [invoked EXCEPT ![r] = IF op = "none" THEN @ ELSE Append(@, op)]
                   /\ Complete(r, out)
                   /\ egen' = [egen EXCEPT ![r] = IF streaming THEN "created" ELSE @]
                   /\ stream' = [stream EXCEPT ![r] = IF streaming THEN "created" ELSE @]
                   /\ conn' = [conn EXCEPT ![r] = IF streaming THEN "open" ELSE @]
    /\ UNCHANGED <<context_builder, req, stream_exc, produced, frames>>

\* ------------------------------------------------- event_generator(stream)
\* The frame of the new item placed before the frames already handed over.
event_generator_yield_Prepend(sent, item) == <<Frame(item)>> \o sent

\* `yield {'data': ...}`: the frame of the item just received is handed to
\* the transport, after the frames handed over before.
event_generator_yield(sent, item) == Append(sent, Frame(item))

\* What ending the event generator from outside does to the stream.  The
\* `async for` has no finally/aclose: a generator abandoned or closed while
\* suspended at its yield (or never started) leaves the stream as it is; a
\* cancellation that arrives while it awaits the next item is raised inside
\* the stream, which ends it.
StreamAfterDisconnect(egen_state, stream_state) ==
    IF egen_state = "awaiting" THEN "closed" ELSE stream_state

\* The transport asks for the next frame: event_generator enters (or
\* resumes) `async for item in stream` and awaits the next item.
StreamPull(r) ==
    /\ conn[r] = "open"
    /\ egen[r] \in {"created", "yielded"}
    /\ egen' = [egen EXCEPT ![r] = "awaiting"]
    /\ stream' = [stream EXCEPT ![r] = "running"]
    /\ UNCHANGED <<context_builder, pc, req, request_id, request_obj, call_context,
                   transport_request,
                   builds, invoked, handler_outcome, response, raised, log,
                   stream_exc, produced, frames, conn>>

\* The stream run ahead of the transport: two items are taken at once.
StreamItem_Prefetch(r) ==
    /\ egen[r] = "awaiting"
    /\ Len(produced[r]) < MaxItems
    /\ produced' = [produced EXCEPT ![r] =
                       IF Len(@) + 1 < MaxItems
                       THEN @ \o <<Item(request_id[r], Len(@) + 1), Item(request_id[r], Len(@) + 2)>>
                       ELSE Append(@, Item(request_id[r], Len(@) + 1))]
    /\ stream' = [stream EXCEPT ![r] = "suspended"]
    /\ egen' = [egen EXCEPT ![r] = "holding"]
    /\ UNCHANGED <<context_builder, pc, req, request_id, request_obj, call_context,
                   transport_request,
                   builds, invoked, handler_outcome, response, raised, log,
                   stream_exc, frames, conn>>

\* The stream produces its next item and suspends; event_generator holds it.
StreamItem(r) ==
    /\ egen[r] = "awaiting"
    /\ Len(produced[r]) < MaxItems
    /\ produced' = [produced EXCEPT ![r] = Append(@, Item(request_id[r], Len(@) + 1))]
    /\ stream' = [stream EXCEPT ![r] = "suspended"]
    /\ egen' = [egen EXCEPT ![r] = "holding"]
    /\ UNCHANGED <<context_builder, pc, req, request_id, request_obj, call_context,
                   transport_request,
                   builds, invoked, handler_outcome, response, raised, log,
                   stream_exc, frames, conn>>

\* event_generator serialises the item it holds and yields the frame.
StreamEmit(r) ==
    /\ egen[r] = "holding"
    /\ frames' = [frames EXCEPT ![r] =
                     event_generator_yield(@, produced[r][Len(produced[r])])]
    /\ egen' = [egen EXCEPT ![r] = "yielded"]
    /\ UNCHANGED <<context_builder, pc, req, request_id, request_obj, call_context,
                   transport_request,
                   builds, invoked, handler_outcome, response, raised, log,
                   stream, stream_exc, produced, conn>>

\* The stream is exhausted: the `async for` ends, event_generator returns
\* and the transport closes the response.
StreamExhausted(r) ==
    /\ egen[r] = "awaiting"
    /\ stream' = [stream EXCEPT ![r] = "exhausted"]
    /\ egen' = [egen EXCEPT ![r] = "ended"]
    /\ conn' = [conn EXCEPT ![r] = "closed"]
    /\ UNCHANGED <<context_builder, pc, req, request_id, request_obj, call_context,
                   transport_request,
                   builds, invoked, handler_outcome, response, raised, log,
                   stream_exc, produced, frames>>

\* An event_generator that catches the exception of the stream and yields a
\* last frame describing it.
StreamRaises_ErrorFrame(r) ==
    /\ egen[r] = "awaiting"
    /\ \E e \in StreamExceptions : stream_exc' = [stream_exc EXCEPT ![r] = e]
    /\ stream' = [stream EXCEPT ![r] = "failed"]
    /\ egen' = [egen EXCEPT ![r] = "ended"]
    /\ conn' = [conn EXCEPT ![r] = "closed"]
    /\ frames' = [frames EXCEPT ![r] = Append(@, [data |-> <<"error", request_id[r], 0>>])]
    /\ UNCHANGED <<context_builder, pc, req, request_id, request_obj, call_context,
                   transport_request,
                   builds, invoked, handler_outcome, response, raised, log,
                   produced>>

\* Producing the next item raises: the exception leaves the stream and
\* event_generator (which has no except clause); the response ends.
StreamRaises(r) ==
    /\ egen[r] = "awaiting"
    /\ \E e \in StreamExceptions : stream_exc' = [stream_exc EXCEPT ![r] = e]
    /\ stream' = [stream EXCEPT ![r] = "failed"]
    /\ egen' = [egen EXCEPT ![r] = "ended"]
    /\ conn' = [conn EXCEPT ![r] = "closed"]
    /\ UNCHANGED <<context_builder, pc, req, request_id, request_obj, call_context,
                   transport_request,
                   builds, invoked, handler_outcome, response, raised, log,
                   produced, frames>>

\* The caller disconnects while the response is in progress: the transport
\* cancels the task that iterates event_generator.
Disconnect(r) ==
    /\ conn[r] = "open"
    /\ egen[r] \in {"created", "awaiting", "yielded"}
    /\ conn' = [conn EXCEPT ![r] = "disconnected"]
    /\ stream' = [stream EXCEPT ![r] = StreamAfterDisconnect(egen[r], @)]
    /\ egen' = [egen EXCEPT ![r] = "ended"]
    /\ UNCHANGED <<context_builder, pc, req, request_id, request_obj, call_context,
                   transport_request,
                   builds, invoked, handler_outcome, response, raised, log,
                   stream_exc, produced, frames>>

\* ------------------------------------------------------------ specification
Next ==
    \E r \in Reqs :
        \/ Receive(r)
        \/ BodyReadFails(r)
        \/ ValidationFails(r)
        \/ BuildContextFails(r)
        \/ DispatchUnary(r)
        \/ HandlerCompletes(r)
        \/ DispatchStreaming(r)
        \/ StreamPull(r)
        \/ StreamItem(r)
        \/ StreamEmit(r)
        \/ StreamExhausted(r)
        \/ StreamRaises(r)
        \/ Disconnect(r)

Spec == Init /\ [][Next]_vars

\* ------------------------------------------------------------------ typing
TypeOK ==
    /\ context_builder \in {"default", "custom"}
    /\ \A r \in Reqs :
          /\ pc[r] \in {"idle", "read_body", "await_handler", "returned", "raised"}
          /\ req[r] \in Requests \cup {NoBody}
          /\ request_id[r] \in IdValues
          /\ builds[r] \in 0..1
          /\ Len(invoked[r]) <= 1
          /\ egen[r] \in {"none", "created", "awaiting", "holding", "yielded", "ended"}
          /\ stream[r] \in {"none", "created", "running", "suspended", "exhausted", "failed", "closed"}
          /\ conn[r] \in {"none", "open", "closed", "disconnected"}
          /\ Len(frames[r]) <= Len(produced[r])
          /\ Len(produced[r]) <= MaxItems

\* ------------------------------------------------------- claim vocabulary
Done(r) == pc[r] \in {"returned", "raised"}

\* The body of r is JSON and validates as one of the nine request classes.
Decodes(r) ==
    /\ req[r].kind = "json"
    /\ ModelValidate(req[r]).exc = NoExc

\* The body of r is JSON and validates as no request class.
FailsValidation(r) ==
    /\ req[r].kind = "json"
    /\ ModelValidate(req[r]).exc # NoExc

\* The context builder was called for r and raised.
BuildFailed(r) == builds[r] > 0 /\ request_obj[r] = NoRequest /\ Done(r)

\* resp is a single JSON body carrying the named error.
IsErrorBody(resp, name, code) ==
    /\ resp.kind = "json"
    /\ resp.content.tag = "error"
    /\ "error" \in resp.content.keys
    /\ "result" \notin resp.content.keys
    /\ resp.content.error.name = name
    /\ resp.content.error.code = code

\* resp is a single JSON body carrying a result.
IsResultBody(resp) ==
    /\ resp.kind = "json"
    /\ resp.content.tag = "result"
    /\ "result" \in resp.content.keys
    /\ "error" \notin resp.content.keys

\* resp is a JSON-RPC response: one JSON body with exactly one of result and
\* error, or the event stream of a streaming request.
WellFormed(resp) ==
    \/ IsResultBody(resp)
    \/ /\ resp.kind = "json"
       /\ resp.content.tag = "error"
       /\ resp.content.keys \in {{"jsonrpc", "error"}, {"jsonrpc", "id", "error"}}
       /\ resp.content.error.code < 0
    \/ resp.kind = "sse"

\* Some stage of the pipeline of r raised inside the try block.
Failed(r) ==
    \/ ReadJson(req[r]).exc # NoExc
    \/ FailsValidation(r)
    \/ BuildFailed(r)
    \/ handler_outcome[r].exc # NoExc

\* ---------------------------------------------------------------------- C1
\* C1 (as claimed): no exception ever escapes the request pipeline -
\* _handle_requests never ends by raising.
C1_NeverRaises ==
    \A r \in Reqs : pc[r] # "raised" /\ raised[r] = NoExc

\* C1 (amended): the only exception that leaves _handle_requests is an
\* HTTPException whose status is not 413; every other failure, at whatever
\* stage, ends in a returned well-formed JSON-RPC response, and a request with
\* a failed stage is answered with an error body.
C1_OnlyHTTPExceptionEscapes ==
    \A r \in Reqs :
        /\ pc[r] = "raised" =>
              /\ raised[r].type = "HTTPException"
              /\ raised[r].status # HTTP_413_REQUEST_ENTITY_TOO_LARGE
              /\ response[r] = NoResponse
        /\ pc[r] = "returned" =>
              /\ raised[r] = NoExc
              /\ WellFormed(response[r])
              /\ Failed(r) => response[r].kind = "json" /\ response[r].content.tag = "error"

\* C1 witness: a handler raised a plain exception and the invocation
\* returned an error body; another invocation re-raised an HTTPException.
C1_Witness ==
    \E r1, r2 \in Reqs :
        /\ pc[r1] = "returned"
        /\ handler_outcome[r1].exc.type = "Exception"
        /\ response[r1].content.tag = "error"
        /\ pc[r2] = "raised"

\* ---------------------------------------------------------------------- C2
\* C2: every response produced for a request that decodes with id i carries
\* id i - a handler's success or explicit error, and an error generated for
\* a failure in context building, dispatch or handling.
C2_IdEcho ==
    \A r \in Reqs :
        (Decodes(r) /\ pc[r] = "returned" /\ response[r].kind = "json")
            => BodyId(response[r].content) = req[r].id

\* ---------------------------------------------------------------------- C3
\* C3: a JSON body that matches no request class is answered with an
\* InvalidRequestError (-32600) carrying the validation detail, whose id is
\* the top-level id of the body whenever the body has one.
C3_ValidationFailureKeepsId ==
    \A r \in Reqs :
        (FailsValidation(r) /\ Done(r)) =>
            /\ pc[r] = "returned"
            /\ IsErrorBody(response[r], "InvalidRequestError", -32600)
            /\ response[r].content.error.data = "validation detail"
            /\ BodyId(response[r].content) = req[r].id

\* ---------------------------------------------------------------------- C4
\* The request of r reached dispatch (request_obj is set).
Dispatched(r) == request_obj[r] # NoRequest

\* Each dispatched request of the nine classes has exactly one handler
\* operation called for it, the operation is determined by the class and
\* differs between classes, and streaming classes take the streaming path
\* (never an awaited unary call), unary classes the unary path (never an
\* event stream).
C4_NineVariantsRouted ==
    /\ \A r \in Reqs :
          Dispatched(r) =>
              /\ request_obj[r].type \in RequestTypes
              /\ Len(invoked[r]) = 1
              /\ request_obj[r].type \in StreamingTypes =>
                    /\ pc[r] # "await_handler"
                    /\ handler_outcome[r].exc = NoExc => response[r].kind = "sse"
              /\ request_obj[r].type \in UnaryTypes =>
                    /\ response[r].kind # "sse"
                    /\ egen[r] = "none"
    /\ \A r1, r2 \in Reqs :
          (Dispatched(r1) /\ Dispatched(r2)) =>
              (request_obj[r1].type = request_obj[r2].type <=> invoked[r1] = invoked[r2])

\* The body of r is a JSON object whose method is none of the nine.
HasUnknownMethod(r) ==
    req[r].kind = "json" /\ req[r].shape = "object" /\ req[r].method \notin KnownMethods

\* C4 (as claimed): the nine classes are routed as above, and a body with any
\* other discriminator is answered with an UnsupportedOperationError.
C4_UnknownIsUnsupported ==
    /\ C4_NineVariantsRouted
    /\ \A r \in Reqs :
          (HasUnknownMethod(r) /\ Done(r)) =>
              /\ pc[r] = "returned"
              /\ response[r].kind = "json"
              /\ response[r].content.error.name = "UnsupportedOperationError"

\* C4 (amended): the nine classes are routed as above, and a body with any
\* other discriminator is answered with an InvalidRequestError (-32600)
\* without any handler operation being called and without raising.
C4_UnknownIsInvalidRequest ==
    /\ C4_NineVariantsRouted
    /\ \A r \in Reqs :
          (HasUnknownMethod(r) /\ Done(r)) =>
              /\ pc[r] = "returned"
              /\ IsErrorBody(response[r], "InvalidRequestError", -32600)
              /\ invoked[r] = << >>

\* C4 witness: a resubscribe request answered with an event stream, next to
\* an unknown method answered with an error body.
C4_Witness ==
    \E r1, r2 \in Reqs :
        /\ request_obj[r1].type = "TaskResubscriptionRequest"
        /\ response[r1].kind = "sse"
        /\ invoked[r1] = <<"on_resubscribe_to_task">>
        /\ HasUnknownMethod(r2)
        /\ pc[r2] = "returned"

\* ---------------------------------------------------------------------- C5
\* C5: the frames handed to the transport are, at every moment, the frames
\* of a prefix of the items the stream produced, in the same order, one
\* frame per item; when the stream is exhausted every item has its frame and
\* the response is closed.
C5_FramesArePrefix ==
    \A r \in Reqs :
        /\ Len(frames[r]) <= Len(produced[r])
        /\ \A i \in 1..Len(frames[r]) : frames[r][i] = Frame(produced[r][i])
        /\ stream[r] = "exhausted" =>
              /\ Len(frames[r]) = Len(produced[r])
              /\ conn[r] = "closed"
              /\ egen[r] = "ended"

\* C5 witness: a stream that produced three items ran to completion.
C5_Witness ==
    \E r \in Reqs :
        /\ stream[r] = "exhausted"
        /\ Len(produced[r]) >= 3
        /\ Len(frames[r]) >= 3

\* ---------------------------------------------------------------------- C6
\* C6: once the caller has disconnected from a streaming response and the
\* event generator has ended, the handler's stream is not left started and
\* unfinished.
C6_StreamStoppedOnDisconnect ==
    \A r \in Reqs :
        (conn[r] = "disconnected" /\ egen[r] = "ended")
            => stream[r] \notin {"running", "suspended"}

\* ---------------------------------------------------------------------- C7
\* C7: every single-body response the pipeline returns - a handler's success,
\* a handler's explicit error, an error generated by the except clauses -
\* has transport status 200.
C7_TransportSuccess ==
    \A r \in Reqs :
        (pc[r] = "returned" /\ response[r].kind = "json") => response[r].status = 200

\* C7 witness: a handler's explicit error and a generated error, both returned.
C7_Witness ==
    \E r1, r2 \in Reqs :
        /\ pc[r1] = "returned"
        /\ handler_outcome[r1].result.cls = "JSONRPCErrorResponse"
        /\ response[r1].content.tag = "error"
        /\ pc[r2] = "returned"
        /\ Failed(r2)
        /\ response[r2].content.tag = "error"

\* ---------------------------------------------------------------------- C8
NotImplementedAtCall(r) == handler_outcome[r].exc.type = "MethodNotImplementedError"
NotImplementedInStream(r) == stream_exc[r].type = "MethodNotImplementedError"

\* r was answered with an UnsupportedOperationError carrying its request id.
AnsweredUnsupported(r) ==
    /\ pc[r] = "returned"
    /\ IsErrorBody(response[r], "UnsupportedOperationError", -32004)
    /\ BodyId(response[r].content) = req[r].id

\* C8 (as claimed): whenever the selected operation, unary or streaming,
\* signals MethodNotImplementedError, the caller receives an
\* UnsupportedOperationError response carrying the request's id.
C8_NotImplementedAlwaysAnswered ==
    \A r \in Reqs :
        (NotImplementedAtCall(r) \/ NotImplementedInStream(r)) => AnsweredUnsupported(r)

\* C8 (amended): a MethodNotImplementedError raised by the call made inside
\* _handle_requests (the awaited unary operation, or the call that creates
\* the stream) is answered with an UnsupportedOperationError carrying the
\* request's id; one raised by the stream while it produces an item ends the
\* event stream and is answered with no error response.
C8_NotImplementedAtCallAnswered ==
    \A r \in Reqs :
        /\ NotImplementedAtCall(r) => AnsweredUnsupported(r)
        /\ NotImplementedInStream(r) =>
              /\ response[r].kind = "sse"
              /\ conn[r] = "closed"
              /\ log[r] = << >>

\* C8 witness: a unary and a streaming operation both raised
\* MethodNotImplementedError when called, for requests that carry an id.
C8_Witness ==
    \E r1, r2 \in Reqs :
        /\ NotImplementedAtCall(r1) /\ request_obj[r1].type \in UnaryTypes
        /\ NotImplementedAtCall(r2) /\ request_obj[r2].type \in StreamingTypes
        /\ req[r1].id # None /\ req[r2].id # None
        /\ req[r1].id # req[r2].id

\* ---------------------------------------------------------------------- C9
\* C9: when reading the body raises HTTPException(413) the invocation returns
\* InvalidRequestError (-32600, 'Payload too large') with the request's id or
\* null, and raises nothing.
C9_PayloadTooLarge ==
    \A r \in Reqs :
        (req[r].kind = "too_large" /\ pc[r] \notin {"idle", "read_body"}) =>
            /\ pc[r] = "returned"
            /\ raised[r] = NoExc
            /\ IsErrorBody(response[r], "InvalidRequestError", -32600)
            /\ response[r].content.error.message = "Payload too large"
            /\ BodyId(response[r].content) \in {None, req[r].id}

\* C9 witness: an oversized body has been answered.
C9_Witness ==
    \E r \in Reqs : req[r].kind = "too_large" /\ pc[r] = "returned"

\* --------------------------------------------------------------------- C10
\* C10: a body that is not well-formed JSON is answered with a ParseError
\* (-32700) whose id is null, and neither the context builder nor a handler
\* operation is called for it.
C10_MalformedBody ==
    \A r \in Reqs :
        req[r].kind = "malformed" =>
            /\ builds[r] = 0
            /\ invoked[r] = << >>
            /\ pc[r] \in {"read_body", "returned"}
            /\ pc[r] = "returned" =>
                  /\ IsErrorBody(response[r], "JSONParseError", -32700)
                  /\ BodyId(response[r].content) = None

\* C10 witness: a malformed body has been answered.
C10_Witness ==
    \E r \in Reqs : req[r].kind = "malformed" /\ pc[r] = "returned"

\* --------------------------------------------------------------------- C11
\* The "Request Error" records _generate_error_response logged for r.
RequestErrorLogs(r) ==
    {log[r][i] : i \in {j \in 1..Len(log[r]) : log[r][j].what = "Request Error"}}

\* C11 (as claimed): every error response generated for the categories of
\* the translator table is logged at ERROR, none at WARNING.
C11_AllLoggedAtError ==
    \A r \in Reqs : \A l \in RequestErrorLogs(r) : l.level = "ERROR"

\* C11 (amended): of the categories of the translator table only
\* InternalError (-32603) is logged at ERROR; ParseError, InvalidRequestError
\* (validation failure and oversized payload) and UnsupportedOperationError
\* are logged at WARNING; every generated error response is logged once.
C11_OnlyInternalErrorAtError ==
    \A r \in Reqs :
        /\ \A l \in RequestErrorLogs(r) :
              /\ l.code \in {-32700, -32600, -32004, -32603}
              /\ l.code = -32603 => l.level = "ERROR"
              /\ l.code # -32603 => l.level = "WARNING"
        /\ (pc[r] = "returned" /\ Failed(r)) =>
              /\ Cardinality(RequestErrorLogs(r)) = 1
              /\ \A l \in RequestErrorLogs(r) : l.code = response[r].content.error.code

\* C11 witness: one invocation logged a ParseError at WARNING, another an
\* InternalError at ERROR.
C11_Witness ==
    \E r1, r2 \in Reqs :
        /\ \E l \in RequestErrorLogs(r1) : l.code = -32700 /\ l.level = "WARNING"
        /\ \E l \in RequestErrorLogs(r2) : l.code = -32603 /\ l.level = "ERROR"

\* --------------------------------------------------------------------- C12
\* C12: DefaultCallContextBuilder.build never raises, whatever attribute of
\* the request raises; the identity of the context it returns is never
\* absent, and it is the unauthenticated sentinel whenever reading the user
\* or the auth claims failed.
C12_BuildNeverFails ==
    \A r \in Reqs :
        context_builder = "default" =>
            /\ ~BuildFailed(r)
            /\ pc[r] = "await_handler" =>
                  /\ call_context[r].user.cls \in {"UnauthenticatedUser", "StarletteUserProxy"}
                  /\ (transport_request[r].user = "raises" \/ transport_request[r].auth = "raises")
                        => call_context[r].user = UnauthenticatedUser

\* --------------------------------------------------------------------- C13
\* The handler operation of r handed back a value, which _create_response
\* turned into the response of r.
Rendered(r) ==
    /\ pc[r] = "returned"
    /\ Dispatched(r)
    /\ Len(invoked[r]) = 1
    /\ handler_outcome[r].exc = NoExc

C14_ProducerFailure ==
    \A r \in Reqs :
        stream[r] = "failed" =>
            /\ Len(frames[r]) = Len(produced[r])
            /\ \A i \in 1..Len(frames[r]) : frames[r][i] = Frame(produced[r][i])
            /\ egen[r] = "ended"
            /\ conn[r] = "closed"
            /\ pc[r] = "returned"
            /\ response[r] = EventSourceResponse
            /\ raised[r] = NoExc
            /\ log[r] = << >>

\* C14 witness: the stream failed on its third item, two frames delivered.
C14_Witness ==
    \E r \in Reqs :
        /\ stream[r] = "failed"
        /\ stream_exc[r].type = "Exception"
        /\ Len(frames[r]) = 2

\* --------------------------------------------------------------------- C15
\* C15: no item exists when the event stream is returned (the stream is not
\* started before the transport asks for a frame); the next item is asked
\* for only when every item produced has had its frame handed over, so at
\* most one item is ever produced and not yet emitted.
C15_LazyUnbuffered ==
    \A r \in Reqs :
        /\ Len(produced[r]) <= Len(frames[r]) + 1
        /\ Len(produced[r]) > Len(frames[r]) => egen[r] = "holding"
        /\ egen[r] = "awaiting" => Len(frames[r]) = Len(produced[r])
        /\ egen[r] = "created" => produced[r] = << >> /\ stream[r] = "created"
        /\ pc[r] # "returned" => produced[r] = << >> /\ stream[r] = "none"

\* C15 witness: with one frame handed over, the second item is awaited.
C15_Witness ==
    \E r \in Reqs :
        /\ egen[r] = "awaiting"
        /\ Len(frames[r]) = 1
        /\ Len(produced[r]) = 1

\* --------------------------------------------------------------------- C16
\* The descriptions of the exceptions the configured builder can raise.
BuildFailureMessages ==
    {c.outcome.exc.msg : c \in {d \in BuildCalls(context_builder) : d.outcome.exc # NoExc}}

\* r was answered with an InternalError whose message is one of msgs.
AnsweredInternalError(r, msgs) ==
    /\ pc[r] = "returned"
    /\ IsErrorBody(response[r], "InternalError", -32603)
    /\ response[r].content.error.message \in msgs

\* C16: a failure of the context builder, or of the called handler
\* operation, that is none of the specially handled classes is answered with
\* an InternalError (-32603) whose message is the description of the
\* failure, and the handler operation is not called a second time.
C16_InternalFailures ==
    \A r \in Reqs :
        /\ handler_outcome[r].exc.type = "Exception" =>
              /\ AnsweredInternalError(r, {handler_outcome[r].exc.msg})
              /\ Len(invoked[r]) = 1
        /\ BuildFailed(r) =>
              /\ AnsweredInternalError(r, BuildFailureMessages)
              /\ invoked[r] = << >>

\* C16 witness: one invocation whose handler raised, one whose context
\* builder raised, both answered.
C16_Witness ==
    \E r1, r2 \in Reqs :
        /\ handler_outcome[r1].exc.type = "Exception" /\ pc[r1] = "returned"
        /\ BuildFailed(r2) /\ pc[r2] = "returned"

\* --------------------------------------------------------------------- C17
\* e is an HTTPException whose status is not 413.
HTTPFault(e) ==
    e.type = "HTTPException" /\ e.status # HTTP_413_REQUEST_ENTITY_TOO_LARGE

\* _handle_requests of r ended by raising e, with no response and no log record.
Reraised(r, e) ==
    /\ pc[r] = "raised"
    /\ raised[r] = e
    /\ response[r] = NoResponse
    /\ log[r] = << >>

\* C17: an HTTPException with a status other than 413, raised while the body
\* is read or by the handler operation, leaves _handle_requests unchanged;
\* no error response is generated and nothing is logged for it.
C17_OtherHTTPExceptionsPropagate ==
    \A r \in Reqs :
        /\ (pc[r] \notin {"idle", "read_body"} /\ HTTPFault(ReadJson(req[r]).exc))
              => Reraised(r, ReadJson(req[r]).exc)
        /\ HTTPFault(handler_outcome[r].exc) => Reraised(r, handler_outcome[r].exc)

\* C17 witness: one HTTPException(400) from reading the body and one from a
\* handler operation have both left their invocations.
C17_Witness ==
    \E r1, r2 \in Reqs :
        /\ req[r1].kind = "http_error" /\ pc[r1] = "raised"
        /\ HTTPFault(handler_outcome[r2].exc) /\ pc[r2] = "raised"

\* --------------------------------------------------------------------- C18
\* Everything that belongs to invocation r.
Local(r) ==
    <<pc[r], req[r], request_id[r], request_obj[r], call_context[r],
      transport_request[r], builds[r], invoked[r], handler_outcome[r],
      response[r], raised[r], log[r], egen[r], stream[r], stream_exc[r],
      produced[r], frames[r], conn[r]>>

\* The single body returned for r carries the id of the request of r and,
\* when its handler operation handed back a value, exactly that value; the
\* frames of r are those of the items of its own stream.
OwnIdAndOutcome(r) ==
    /\ (pc[r] = "returned" /\ response[r].kind = "json") =>
          /\ BodyId(response[r].content) = req[r].id
          /\ (invoked[r] # << >> /\ handler_outcome[r].exc = NoExc) =>
                response[r].content = ModelDump(handler_outcome[r].result.model)
    /\ \A i \in 1..Len(frames[r]) : frames[r][i] = Frame(Item(req[r].id, i))

\* A step changes what belongs to at most one invocation.
StepIsLocal ==
    \A r1, r2 \in Reqs :
        (r1 # r2 /\ Local(r1)' # Local(r1)) => Local(r2)' = Local(r2)

\* C18: under every interleaving of the invocations, each response carries
\* the id of its own request and the outcome of its own handler call, and no
\* step of one invocation touches the state of another.
C18_RequestIsolation ==
    /\ [](\A r \in Reqs : OwnIdAndOutcome(r))
    /\ [][StepIsLocal]_vars

\* The part of C18 that holds: whatever the interleaving, a response carries
\* the id of its own request or none, never that of another request, the
\* value of its own handler call, and steps are local.
C18_NoCrossTalk ==
    /\ [](\A r \in Reqs :
            /\ (pc[r] = "returned" /\ response[r].kind = "json") =>
                  /\ BodyId(response[r].content) \in {None, req[r].id}
                  /\ (invoked[r] # << >> /\ handler_outcome[r].exc = NoExc) =>
                        response[r].content = ModelDump(handler_outcome[r].result.model)
            /\ \A i \in 1..Len(frames[r]) : frames[r][i] = Frame(Item(req[r].id, i)))
    /\ [][StepIsLocal]_vars

\* --------------------------------------------------------------------- C19
\* C19: at most one handler operation is called per request, and only for a
\* body that parsed and validated, after the context was built; the context
\* builder is called at most once, and never for a body that failed to parse
\* or to validate.
C19_OneHandlerAfterContext ==
    \A r \in Reqs :
        /\ Len(invoked[r]) <= 1
        /\ builds[r] <= 1
        /\ invoked[r] # << >> =>
              /\ Decodes(r)
              /\ builds[r] = 1
              /\ Dispatched(r)
              /\ invoked[r][1] \in {UnaryHandlerOf(request_obj[r].type),
                                    StreamingHandlerOf(request_obj[r].type)} \ {"none"}
        /\ builds[r] > 0 => Decodes(r)
        /\ ~Decodes(r) => builds[r] = 0 /\ invoked[r] = << >>

\* C19 witness: a handler operation was called for one request while another,
\* which failed validation, has been answered.
C19_Witness ==
    \E r1, r2 \in Reqs :
        /\ Len(invoked[r1]) = 1 /\ builds[r1] = 1
        /\ FailsValidation(r2) /\ pc[r2] = "returned"

\* --------------------------------------------------------------------- C20
\* C20: the body returned for a unary request is the dump of the value its
\* handler operation handed back - an explicit error keeps its id, code and
\* message; the kind of response follows from the class of that value, and
\* equal values are rendered equally whatever the variants of the requests.
C20_OutcomeForwarded ==
    /\ \A r \in Reqs :
          Rendered(r) =>
              /\ response[r].kind = "sse" <=> handler_outcome[r].result.cls = "AsyncGenerator"
              /\ handler_outcome[r].result.cls # "AsyncGenerator" =>
                    /\ response[r].kind = "json"
                    /\ response[r].content = ModelDump(handler_outcome[r].result.model)
                    /\ response[r].content.tag = handler_outcome[r].result.model.tag
                    /\ response[r].content.error = handler_outcome[r].result.model.error
                    /\ response[r].content.result = handler_outcome[r].result.model.result
                    /\ BodyId(response[r].content) = handler_outcome[r].result.model.id
    /\ \A r1, r2 \in Reqs :
          (Rendered(r1) /\ Rendered(r2) /\ handler_outcome[r1].result = handler_outcome[r2].result)
              => response[r1] = response[r2]

\* C20 witness: two requests of different variants whose handlers returned
\* the same explicit error, both answered.
C20_Witness ==
    \E r1, r2 \in Reqs :
        /\ Rendered(r1) /\ Rendered(r2)
        /\ request_obj[r1].type # request_obj[r2].type
        /\ handler_outcome[r1].result.cls = "JSONRPCErrorResponse"
        /\ handler_outcome[r1].result = handler_outcome[r2].result
        /\ response[r1].content.error = TaskNotFoundError

====
